---- MODULE Spec2Model ----
(***************************************************************************)
(* Model of the batched quote pipeline of src/src/crypto_analysis.py:      *)
(* the CryptoCache class (load, is_valid, get, set, save), the fetcher     *)
(* get_batch_quotes and the orchestrator process_all_tickers.              *)
(*                                                                         *)
(* Time is a wall clock in milliseconds that never runs backwards and is   *)
(* read at the granularity of TickMs: a sleep of a few seconds is recorded *)
(* in the batch's history, and the time it and the requests take shows on  *)
(* the clock as a Tick.  JSON values are records tagged by a field t;      *)
(* Python's None is the record None.  A cache key is the string            *)
(* ','.join(sorted(symbols)).                                              *)
(***************************************************************************)
EXTENDS Integers, Sequences, FiniteSets, TLC

VARIABLES
    file,           \* the document crypto_cache.json on disk
    cache,          \* CryptoCache.cache, the in-memory document
    now,            \* datetime.now(), in milliseconds
    ticks,          \* number of clock jumps taken so far (bounds the clock)
    \* ---- CryptoCache used on its own (specification CacheSpec)
    lastOp,         \* the last cache call: its arguments and what it returned
    storedAt,       \* history: when set last stored the entry (key, data_type)
    \* ---- one run of process_all_tickers (specification Spec)
    hasKey,         \* os.getenv('CMC_API_KEY') is non-empty
    tickersIn,      \* the argument tickers
    tickers,        \* the normalized list (line 122)
    pc,             \* position of the run
    i,              \* start offset of the current batch (line 126)
    retry,          \* loop variable of the retry loop (line 131)
    quote_data,     \* result of the last get_batch_quotes call
    results,        \* dict symbol -> (momentum_score, price)
    failed_tokens,  \* list of symbols
    api_calls,      \* the call counter
    disk,           \* what writing the document does during this run
    entryPool,      \* the entries the service may answer with, besides good quotes
    requests,       \* history: number of remote requests issued
    attempts,       \* history: calls of get_batch_quotes for the current batch
    sleeps,         \* history: the backoff sleeps of the current batch, in ms
    pause,          \* history: the pause slept after the previous batch, in ms
    lastFetch       \* history of the last get_batch_quotes call

cacheVars == <<file, cache, now, ticks>>
apiVars   == <<lastOp, storedAt>>
runVars   == <<hasKey, tickersIn, tickers, pc, i, retry, quote_data, results,
               failed_tokens, api_calls, disk, entryPool, requests, attempts,
               sleeps, pause, lastFetch>>
vars      == <<file, cache, now, ticks, lastOp, storedAt, hasKey, tickersIn,
               tickers, pc, i, retry, quote_data, results, failed_tokens,
               api_calls, disk, entryPool, requests, attempts, sleeps, pause,
               lastFetch>>

(***************************************************************************)
(* Program constants and the bounds of the model.                          *)
(***************************************************************************)
CACHE_EXPIRY == 3600
\* The source sets BATCH_SIZE = 100 (line 15); the model checks the same code
\* with a small batch size so that runs of several batches stay enumerable.
BATCH_SIZE == 2
MaxTickers == 3
MaxTicks == 1
MaxCacheOps == 3
RateLimitCooldown == 10
BatchPauseMs == 100
MaxAttempts == 3

TTLms == CACHE_EXPIRY * 1000
\* The clock jumps by one TTL, so that an age of exactly one TTL happens.
TickMs == TTLms
T0 == TTLms

(***************************************************************************)
(* JSON values.                                                            *)
(***************************************************************************)
None == [t |-> "none"]
Num(n) == [t |-> "num", n |-> n]
Null == [t |-> "null", n |-> 0]
Missing == [t |-> "absent", n |-> 0]
Iso(ms) == [t |-> "iso", n |-> ms]
Garbage == [t |-> "str"]
EmptyDict == [t |-> "emptydict"]

\* bool(value): None, 0, "", {} and [] are false.
Truthy(v) ==
    CASE v.t = "none" -> FALSE
      [] v.t = "null" -> FALSE
      [] v.t = "emptydict" -> FALSE
      [] v.t = "num" -> v.n # 0
      [] OTHER -> TRUE

(***************************************************************************)
(* The cache document.  A document whose top level is a JSON object is     *)
(* [shape |-> "dict", tab |-> ...]: tab gives, for each top-level name, the *)
(* mapping stored under it (MapTable), a value that is no mapping          *)
(* (BadTable: a list, null, a number, a string) or no such name (NoKey).   *)
(***************************************************************************)
\* The data types callers store under; 'timestamp' is the cache's own name.
DataTypes == {"quotes", "rsi"}
TableNames == DataTypes \cup {"timestamp"}

NoKey == [t |-> "nokey"]
BadTable == [t |-> "bad"]
MapTable(m) == [t |-> "map", m |-> m]
EmptyMap == [k \in {} |-> None]

MapGet(m, k) == IF k \in DOMAIN m THEN m[k] ELSE None
MapPut(m, k, v) == [x \in (DOMAIN m) \cup {k} |-> IF x = k THEN v ELSE m[x]]

DictDoc(tab) == [shape |-> "dict", tab |-> tab]
AbsentDoc == [shape |-> "absent"]
CorruptDoc == [shape |-> "corrupt"]
\* Valid JSON, not an object, on which both `in` tests of the loader are
\* true, e.g. ["quotes", "timestamp"] or the string "quotes timestamp".
NonDictDoc == [shape |-> "nondict"]
\* Valid JSON, not an object, on which the loader raises, e.g. [] or 5.
ScalarDoc == [shape |-> "scalar"]
NotLoaded == [shape |-> "unloaded"]

EmptyCache ==
    DictDoc([n \in TableNames |->
        IF n \in {"quotes", "timestamp"} THEN MapTable(EmptyMap) ELSE NoKey])

\* CryptoCache._load_cache
_load_cache(f) ==
    CASE f.shape = "dict" ->
            DictDoc([n \in TableNames |->
                IF n \in {"quotes", "timestamp"} /\ f.tab[n] = NoKey
                THEN MapTable(EmptyMap) ELSE f.tab[n]])
      [] f.shape = "nondict" -> f
      [] OTHER -> EmptyCache

\* CryptoCache.is_valid; data_type is a parameter the code never reads.
is_valid(c, key, data_type, clock) ==
    /\ c.shape = "dict"
    /\ c.tab["timestamp"].t = "map"
    /\ LET timestamp == MapGet(c.tab["timestamp"].m, key)
       IN  /\ Truthy(timestamp)
           /\ timestamp.t = "iso"
           /\ clock - timestamp.n < TTLms

\* CryptoCache.get
get(c, key, data_type, clock) ==
    IF is_valid(c, key, data_type, clock) /\ c.tab[data_type].t = "map"
    THEN LET v == MapGet(c.tab[data_type].m, key)
         IN  IF v.t = "null" THEN None ELSE v
    ELSE None

\* CryptoCache.set up to the call of save_cache: the cache it leaves, whether
\* the value was stored (line 64 ran) and whether save_cache is reached (an
\* exception on the way is swallowed).
set(c, key, data_type, value, clock) ==
    IF c.shape # "dict" THEN [cache |-> c, stored |-> FALSE, saved |-> FALSE]
    ELSE LET t1 == IF c.tab[data_type] = NoKey
                   THEN [c.tab EXCEPT ![data_type] = MapTable(EmptyMap)]
                   ELSE c.tab
         IN  IF t1[data_type].t # "map"
             THEN [cache |-> c, stored |-> FALSE, saved |-> FALSE]
             ELSE LET t2 == [t1 EXCEPT ![data_type] =
                                MapTable(MapPut(t1[data_type].m, key, value))]
                      t3 == IF t2["timestamp"] = NoKey
                            THEN [t2 EXCEPT !["timestamp"] = MapTable(EmptyMap)]
                            ELSE t2
                  IN  IF t3["timestamp"].t # "map"
                      THEN [cache |-> DictDoc(t3), stored |-> TRUE, saved |-> FALSE]
                      ELSE [cache |-> DictDoc([t3 EXCEPT !["timestamp"] =
                                MapTable(MapPut(t3["timestamp"].m, key, Iso(clock)))]),
                            stored |-> TRUE, saved |-> TRUE]

\* CryptoCache.save_cache: open(CACHE_FILE, 'w') truncates the document, then
\* json.dump writes it.  "ok": written whole; "openfail": open raises and the
\* document is untouched; "partial": the dump raises after the truncation.
SaveOutcomes == {"ok", "openfail", "partial"}
save_cache(f, c, outcome) ==
    CASE outcome = "ok" -> c
      [] outcome = "openfail" -> f
      [] OTHER -> CorruptDoc

(***************************************************************************)
(* Symbols, batches and cache keys.                                        *)
(***************************************************************************)
RawSymbols == {"btc", "eth", "xyz"}

\* str.upper()
Upper(s) ==
    CASE s = "btc" -> "BTC"
      [] s = "eth" -> "ETH"
      [] s = "xyz" -> "XYZ"
      [] OTHER -> s

Symbols == {Upper(s) : s \in RawSymbols}

\* Python compares strings by code point: "BTC" < "ETH" < "XYZ".
Rank(s) ==
    CASE s = "BTC" -> 1
      [] s = "ETH" -> 2
      [] OTHER -> 3

RECURSIVE Insert(_, _)
Insert(x, sorted) ==
    IF sorted = <<>> THEN <<x>>
    ELSE IF Rank(x) <= Rank(Head(sorted)) THEN <<x>> \o sorted
    ELSE <<Head(sorted)>> \o Insert(x, Tail(sorted))

\* sorted(symbols)
RECURSIVE Sorted(_)
Sorted(symbols) ==
    IF symbols = <<>> THEN <<>> ELSE Insert(Head(symbols), Sorted(Tail(symbols)))

\* ','.join(parts)
RECURSIVE Join(_)
Join(parts) ==
    IF parts = <<>> THEN ""
    ELSE IF Len(parts) = 1 THEN parts[1]
    ELSE parts[1] \o "," \o Join(Tail(parts))

\* cache_key = ','.join(sorted(symbols))
cache_key_unsorted(symbols) == Join(symbols)

cache_key(symbols) == Join(Sorted(symbols))

\* tickers = [t.upper() for t in tickers]
Normalize(list) == [k \in 1..Len(list) |-> Upper(list[k])]

Min(a, b) == IF a < b THEN a ELSE b

\* batch = tickers[i:i + BATCH_SIZE]
BatchAt_overlap(list, start) ==
    SubSeq(list, start + 1, Min(start + BATCH_SIZE + 1, Len(list)))

BatchAt(list, start) == SubSeq(list, start + 1, Min(start + BATCH_SIZE, Len(list)))

TickerLists == UNION {[1..n -> RawSymbols] : n \in 0..MaxTickers}

(***************************************************************************)
(* Payloads of the remote service.  A payload is the JSON object of a      *)
(* response: data is "map" (an object keyed by symbol), "null" (present    *)
(* but no object) or "absent" (no 'data' name).  An entry is what the      *)
(* payload holds for one symbol.                                           *)
(***************************************************************************)
Quote(price, pc24, pc7, vol, cap) ==
    [shape |-> "list", price |-> price, percent_change_24h |-> pc24,
     percent_change_7d |-> pc7, volume_24h |-> vol, market_cap |-> cap]

MissingEntry == [shape |-> "missing"]
EmptyEntry == [shape |-> "empty"]
GoodEntry == Quote(Num(100), Num(10), Num(5), Num(1000000), Num(10000000))
NoPriceEntry == Quote(Missing, Num(10), Num(5), Num(1000000), Num(10000000))
ZeroPriceEntry == Quote(Num(0), Num(10), Num(5), Num(1000000), Num(10000000))
NegPriceEntry == Quote(Num(-1), Num(10), Num(5), Num(1000000), Num(10000000))
NullChangeEntry == Quote(Num(100), Num(10), Null, Num(1000000), Num(10000000))
ZeroCapEntry == Quote(Num(200), Num(-4), Num(2), Num(500), Num(0))
\* no 'market_cap' in the quote
NoCapEntry == Quote(Num(100), Num(10), Num(5), Num(500), Missing)
\* a price sent as a JSON string
TextPriceEntry == Quote(Garbage, Num(10), Num(5), Num(1000000), Num(10000000))

EntrySamples ==
    {MissingEntry, EmptyEntry, GoodEntry, NoPriceEntry, ZeroPriceEntry,
     NegPriceEntry, NullChangeEntry, ZeroCapEntry, NoCapEntry,
     TextPriceEntry}

Payload(data, entries) == [t |-> "dict", data |-> data, entries |-> entries]

AllEntries(e) == [s \in Symbols |-> e]

\* The payloads a response for the batch may carry: good quotes for every
\* symbol asked for; one symbol of the batch with an entry of the pool and
\* good quotes for the others; a payload whose 'data' is null; a payload
\* without 'data'.  Symbols that were not asked for are omitted.
PayloadsFor(batch, pool) ==
    LET asked == {batch[k] : k \in 1..Len(batch)}
    IN  {Payload("map", [s \in Symbols |->
                IF s \notin asked THEN MissingEntry
                ELSE IF s = odd THEN e ELSE GoodEntry]) :
            odd \in asked, e \in pool \cup {GoodEntry}}
        \cup {Payload("null", AllEntries(MissingEntry)),
              Payload("absent", AllEntries(MissingEntry))}

(***************************************************************************)
(* Cache documents a run may find on disk.                                 *)
(***************************************************************************)
One(k, v) == MapPut(EmptyMap, k, v)

Doc(quotes, timestamp) ==
    DictDoc([n \in TableNames |->
        CASE n = "quotes" -> quotes
          [] n = "timestamp" -> timestamp
          [] OTHER -> NoKey])

\* A payload with a good quote for every symbol of the list.
GoodPayload(symbols) ==
    Payload("map", [s \in Symbols |->
        IF \E k \in 1..Len(symbols) : symbols[k] = s THEN GoodEntry ELSE MissingEntry])

FreshStamp == Iso(T0 - 1000)
\* exactly one TTL old when the run starts
StaleStamp == Iso(T0 - TTLms)

Entry(key, value, stamp) == Doc(MapTable(One(key, value)), MapTable(One(key, stamp)))

\* Documents with one entry, stored under the key of the batch `symbols`.
DocsWith(symbols) ==
    LET key == cache_key(symbols)
    IN  {Entry(key, GoodPayload(symbols), FreshStamp),
         Entry(key, GoodPayload(symbols), StaleStamp),
         Entry(key, Num(5), FreshStamp),
         Entry(key, EmptyDict, FreshStamp),
         Entry(key, Payload("absent", AllEntries(MissingEntry)), FreshStamp)}

\* Documents without entries: no document, unparsable text, JSON that is no
\* object, an object whose mappings are missing or are no mappings.
BareDocs ==
    {AbsentDoc, CorruptDoc, ScalarDoc, NonDictDoc,
     Doc(NoKey, NoKey),
     Doc(BadTable, MapTable(EmptyMap)),
     Doc(MapTable(EmptyMap), BadTable)}

\* The documents a run over `list` may find: a bare one, or one that holds an
\* entry for the first batch of the list.
DocsFor(list) ==
    {AbsentDoc, NonDictDoc, Doc(MapTable(EmptyMap), BadTable)}
    \cup (IF list = <<>> THEN {} ELSE DocsWith(BatchAt(Normalize(list), 0)))

(***************************************************************************)
(* get_batch_quotes (lines 72-106).                                        *)
(***************************************************************************)
\* What the remote service does with one request.
Responses == {"429", "apperr", "non200", "exception", "ok"}
FailureResponses == Responses \ {"ok"}

\* `response.status == 200 and data.get('status', {}).get('error_code') == 0`
IsSuccess_any_json(resp) == resp \in {"ok", "apperr"}

IsSuccess(resp) == resp = "ok"

\* The cache check of lines 74-77 and the response handling of lines 85-106:
\* what the call returns, the cache and document it leaves, how long it slept.
get_batch_quotes_no_cooldown(c, f, symbols, clock, resp, payload, saveOutcome) ==
    LET key == cache_key(symbols)
        cached_data == get(c, key, "quotes", clock)
    IN  IF Truthy(cached_data)
        THEN [ret |-> cached_data, cache |-> c, file |-> f, slept |-> 0,
              src |-> "cache", resp |-> "none", key |-> key]
        ELSE IF IsSuccess(resp)
        THEN LET st == set(c, key, "quotes", payload, clock)
             IN  [ret |-> payload, cache |-> st.cache,
                  file |-> IF st.saved THEN save_cache(f, st.cache, saveOutcome)
                           ELSE f,
                  slept |-> 0, src |-> "remote", resp |-> resp, key |-> key]
        ELSE [ret |-> None, cache |-> c, file |-> f, slept |-> 0,
              src |-> "remote", resp |-> resp, key |-> key]

get_batch_quotes(c, f, symbols, clock, resp, payload, saveOutcome) ==
    LET key == cache_key(symbols)
        cached_data == get(c, key, "quotes", clock)
    IN  IF Truthy(cached_data)
        THEN [ret |-> cached_data, cache |-> c, file |-> f, slept |-> 0,
              src |-> "cache", resp |-> "none", key |-> key]
        ELSE CASE resp = "429" ->
                    [ret |-> None, cache |-> c, file |-> f,
                     slept |-> RateLimitCooldown * 1000,
                     src |-> "remote", resp |-> resp, key |-> key]
               [] IsSuccess(resp) ->
                    LET st == set(c, key, "quotes", payload, clock)
                    IN  [ret |-> payload, cache |-> st.cache,
                         file |-> IF st.saved
                                  THEN save_cache(f, st.cache, saveOutcome)
                                  ELSE f,
                         slept |-> 0,
                         src |-> "remote", resp |-> resp, key |-> key]
               [] OTHER ->
                    [ret |-> None, cache |-> c, file |-> f, slept |-> 0,
                     src |-> "remote", resp |-> resp, key |-> key]

(***************************************************************************)
(* process_all_tickers (lines 108-189).                                    *)
(***************************************************************************)
\* `quote_data and 'data' in quote_data` (lines 135 and 142)
Usable(qd) == Truthy(qd) /\ qd.t = "dict" /\ qd.data # "absent"

\* `'data' in quote_data` raises TypeError on a number or a boolean.
DataTestRaises(qd) == Truthy(qd) /\ qd.t = "num"

Default(v, d) == IF v = Missing THEN d ELSE v

IsNum(v) == v.t = "num"

\* momentum_score (lines 160-164) as the exact fraction num / den.
momentum_score_no_percent(pc24, pc7, vol, cap) ==
    IF cap.n > 0
    THEN [num |-> (5 * pc24.n + 3 * pc7.n) * cap.n + 2 * vol.n,
          den |-> 10 * cap.n]
    ELSE [num |-> 5 * pc24.n + 3 * pc7.n, den |-> 10]

momentum_score(pc24, pc7, vol, cap) ==
    IF cap.n > 0
    THEN [num |-> (5 * pc24.n + 3 * pc7.n) * cap.n + 2 * 100 * vol.n,
          den |-> 10 * cap.n]
    ELSE [num |-> 5 * pc24.n + 3 * pc7.n, den |-> 10]

Failed(why) == [r |-> "failed", why |-> why]

\* `price and price > 0` (line 158): "ok", "invalid" (the else branch of
\* line 168) or "raises" (a price that is no number cannot be compared)
PriceTest_truthy(price) ==
    IF ~Truthy(price) THEN "invalid"
    ELSE IF ~IsNum(price) THEN "raises"
    ELSE "ok"

PriceTest(price) ==
    IF ~Truthy(price) THEN "invalid"
    ELSE IF ~IsNum(price) THEN "raises"
    ELSE IF price.n > 0 THEN "ok" ELSE "invalid"

\* The body of the per-symbol loop (lines 148-176).
ResolveSymbol(qd, symbol) ==
    IF qd.data # "map" THEN Failed("exception")
    ELSE LET token_data == qd.entries[symbol]
         IN  IF token_data.shape \in {"missing", "empty"} THEN Failed("no_data")
             ELSE IF token_data.shape # "list" THEN Failed("exception")
             ELSE LET price == Default(token_data.price, None)
                      pc24 == Default(token_data.percent_change_24h, Num(0))
                      pc7 == Default(token_data.percent_change_7d, Num(0))
                      vol == Default(token_data.volume_24h, Num(0))
                      cap == Default(token_data.market_cap, Num(0))
                  IN  IF PriceTest(price) = "invalid" THEN Failed("invalid_price")
                      ELSE IF PriceTest(price) = "raises" THEN Failed("exception")
                      ELSE IF ~IsNum(pc24) \/ ~IsNum(pc7) \/ ~IsNum(cap)
                              \/ (cap.n > 0 /\ ~IsNum(vol))
                           THEN Failed("exception")
                      ELSE [r |-> "score",
                            value |-> [score |-> momentum_score(pc24, pc7, vol, cap),
                                       price |-> price.n]]

\* The loop over the batch (lines 147-176).
RECURSIVE ResolveAll_abort(_, _, _, _)
ResolveAll_abort(batch, qd, res, failed) ==
    IF batch = <<>> THEN [results |-> res, failed_tokens |-> failed]
    ELSE LET o == ResolveSymbol(qd, Head(batch))
         IN  IF o.r = "score"
             THEN ResolveAll_abort(Tail(batch), qd, MapPut(res, Head(batch), o.value), failed)
             ELSE IF o.why = "exception"
             THEN [results |-> res, failed_tokens |-> Append(failed, Head(batch))]
             ELSE ResolveAll_abort(Tail(batch), qd, res, Append(failed, Head(batch)))

RECURSIVE ResolveAll(_, _, _, _)
ResolveAll(batch, qd, res, failed) ==
    IF batch = <<>> THEN [results |-> res, failed_tokens |-> failed]
    ELSE LET o == ResolveSymbol(qd, Head(batch))
         IN  IF o.r = "score"
             THEN ResolveAll(Tail(batch), qd, MapPut(res, Head(batch), o.value), failed)
             ELSE ResolveAll(Tail(batch), qd, res, Append(failed, Head(batch)))

\* await asyncio.sleep(2 ** retry), in milliseconds
Backoff_product(r) == (2 * r) * 1000

Backoff(r) == (2 ^ r) * 1000

NextPc(start) == IF start < Len(tickers) THEN "fetch" ELSE "finish"

\* `if not api_key` (lines 113-114)
CredentialMissing_unchecked == FALSE

CredentialMissing == ~hasKey

\* Lines 110-122: the credential check, the cache construction, normalization.
Start ==
    /\ pc = "start"
    /\ IF CredentialMissing
       THEN /\ pc' = "raised_credential"
            /\ UNCHANGED <<cache, tickers>>
       ELSE /\ cache' = _load_cache(file)
            /\ tickers' = Normalize(tickersIn)
            /\ pc' = IF Len(tickersIn) > 0 THEN "fetch" ELSE "finish"
    /\ UNCHANGED <<file, now, ticks, lastOp, storedAt, hasKey, tickersIn, i, retry,
                   quote_data, results, failed_tokens, api_calls, disk, entryPool, requests,
                   attempts, sleeps, pause, lastFetch>>

\* `api_calls += 1` (line 133); src tells where the call's answer came from.
CountCall_remote_only(n, src) == IF src = "remote" THEN n + 1 ELSE n

CountCall(n, src) == n + 1

\* One iteration of the retry loop (lines 131-140), the call of
\* get_batch_quotes included.
Attempt(resp, payload) ==
    LET batch == BatchAt(tickers, i)
        r == get_batch_quotes(cache, file, batch, now, resp, payload, disk)
    IN  /\ quote_data' = r.ret
        /\ cache' = r.cache
        /\ file' = r.file
        /\ api_calls' = CountCall(api_calls, r.src)
        /\ attempts' = attempts + 1
        /\ requests' = IF r.src = "remote" THEN requests + 1 ELSE requests
        /\ lastFetch' = [src |-> r.src, resp |-> r.resp, key |-> r.key,
                         slept |-> r.slept]
        /\ IF DataTestRaises(r.ret)
           THEN /\ pc' = "raised_type_error"
                /\ UNCHANGED <<retry, sleeps>>
           ELSE IF Usable(r.ret)
           THEN /\ pc' = "check"
                /\ UNCHANGED <<retry, sleeps>>
           ELSE IF retry < 2
           THEN /\ pc' = "fetch"
                /\ sleeps' = Append(sleeps, Backoff(retry))
                /\ retry' = retry + 1
           ELSE /\ pc' = "check"
                /\ UNCHANGED <<retry, sleeps>>
        /\ UNCHANGED <<now, ticks, lastOp, storedAt, hasKey, tickersIn, tickers, i,
                       results, failed_tokens, disk, entryPool, pause>>

FetchStep ==
    /\ pc = "fetch"
    /\ \/ \E resp \in FailureResponses : Attempt(resp, None)
       \/ \E payload \in PayloadsFor(BatchAt(tickers, i), entryPool) :
              Attempt("ok", payload)

\* Lines 142-144: a batch without usable data is skipped with `continue`.
SkipBatch_abort ==
    /\ pc = "check"
    /\ ~Usable(quote_data)
    /\ pause' = 0
    /\ pc' = "finish"
    /\ UNCHANGED <<file, cache, now, ticks, lastOp, storedAt, hasKey, tickersIn,
                   tickers, i, retry, quote_data, results, failed_tokens,
                   api_calls, disk, entryPool, requests, attempts, sleeps,
                   lastFetch>>

SkipBatch ==
    /\ pc = "check"
    /\ ~Usable(quote_data)
    /\ i' = i + BATCH_SIZE
    /\ retry' = 0
    /\ attempts' = 0
    /\ sleeps' = <<>>
    /\ pause' = 0
    /\ pc' = NextPc(i + BATCH_SIZE)
    /\ UNCHANGED <<file, cache, now, ticks, lastOp, storedAt, hasKey, tickersIn,
                   tickers, quote_data, results, failed_tokens, api_calls, disk,
                   entryPool, requests, lastFetch>>

\* Lines 146-178: every symbol of the batch is resolved, then the pause.
ResolveBatch ==
    /\ pc = "check"
    /\ Usable(quote_data)
    /\ LET out == ResolveAll(BatchAt(tickers, i), quote_data, results, failed_tokens)
       IN  /\ results' = out.results
           /\ failed_tokens' = out.failed_tokens
    /\ i' = i + BATCH_SIZE
    /\ retry' = 0
    /\ attempts' = 0
    /\ sleeps' = <<>>
    /\ pause' = BatchPauseMs
    /\ pc' = NextPc(i + BATCH_SIZE)
    /\ UNCHANGED <<file, cache, now, ticks, lastOp, storedAt, hasKey, tickersIn,
                   tickers, quote_data, api_calls, disk, entryPool, requests, lastFetch>>

\* Lines 180-189: the metrics and the return of results.
Finish ==
    /\ pc = "finish"
    /\ pc' = "done"
    /\ UNCHANGED <<file, cache, now, ticks, lastOp, storedAt, hasKey, tickersIn,
                   tickers, i, retry, quote_data, results, failed_tokens,
                   api_calls, disk, entryPool, requests, attempts, sleeps, pause,
                   lastFetch>>

\* Time passes before the first request of a batch (the clock is read only
\* inside get_batch_quotes; the sleeps within a batch are far shorter than
\* TickMs).
Tick ==
    /\ pc = "fetch"
    /\ attempts = 0
    /\ ticks < MaxTicks
    /\ ticks' = ticks + 1
    /\ now' = now + TickMs
    /\ UNCHANGED <<file, cache, lastOp, storedAt, hasKey, tickersIn, tickers, pc,
                   i, retry, quote_data, results, failed_tokens, api_calls, disk,
                   entryPool, requests, attempts, sleeps, pause, lastFetch>>

NoCall ==
    [op |-> "none", key |-> "", data_type |-> "", value |-> None, ret |-> None,
     stored |-> FALSE, at |-> 0, n |-> 0, prev |-> [op |-> "none"]]

NoFetch == [src |-> "none", resp |-> "none", key |-> "", slept |-> 0]

\* What no run has touched yet.
Fresh ==
    /\ cache = NotLoaded
    /\ now = T0
    /\ ticks = 0
    /\ lastOp = NoCall
    /\ storedAt = <<>>
    /\ tickers = <<>>
    /\ pc = "start"
    /\ i = 0
    /\ retry = 0
    /\ quote_data = None
    /\ results = EmptyMap
    /\ failed_tokens = <<>>
    /\ api_calls = 0
    /\ requests = 0
    /\ attempts = 0
    /\ sleeps = <<>>
    /\ pause = 0
    /\ lastFetch = NoFetch

\* A run over any list, with or without the credential, that finds any of the
\* documents on a disk that takes writes, or no document on any disk.
Init ==
    /\ hasKey \in BOOLEAN
    /\ tickersIn \in TickerLists
    /\ \/ file \in DocsFor(tickersIn) /\ disk = "ok"
       \/ file = AbsentDoc /\ disk \in SaveOutcomes
    /\ entryPool = {MissingEntry}
    /\ Fresh

\* A run with the credential and a cold cache, against a service that may
\* answer with any of the sample entries.
QuoteInit ==
    /\ hasKey = TRUE
    /\ tickersIn \in TickerLists
    /\ file = AbsentDoc
    /\ disk = "ok"
    /\ entryPool = EntrySamples
    /\ Fresh

Next == Start \/ FetchStep \/ SkipBatch \/ ResolveBatch \/ Finish \/ Tick

Spec == Init /\ [][Next]_vars

(***************************************************************************)
(* CryptoCache on its own: any sequence of set and get calls, over any     *)
(* key, data type and value, on a cache loaded from any document.          *)
(***************************************************************************)
CacheKeys == {"BTC", "BTC,ETH"}
CacheValues == {Num(7), GoodPayload(<<"BTC">>)}
CacheDocs == BareDocs \cup DocsWith(<<"BTC">>)

\* When the document's entry (k, d) was stored, if the document says so.
LoadedAt(f, k, d) ==
    IF /\ f.shape = "dict"
       /\ f.tab[d].t = "map"
       /\ k \in DOMAIN f.tab[d].m
       /\ f.tab["timestamp"].t = "map"
       /\ k \in DOMAIN f.tab["timestamp"].m
       /\ f.tab["timestamp"].m[k].t = "iso"
    THEN f.tab["timestamp"].m[k].n
    ELSE -1

Call(op, k, d, v, ret, stored) ==
    [op |-> op, key |-> k, data_type |-> d, value |-> v, ret |-> ret,
     stored |-> stored, at |-> now, n |-> lastOp.n + 1,
     prev |-> [op |-> lastOp.op, key |-> lastOp.key,
               data_type |-> lastOp.data_type, value |-> lastOp.value,
               stored |-> lastOp.stored, at |-> lastOp.at]]

\* cache.set(k, d, v), the call of save_cache included (lines 60-70)
CacheSet(k, d, v) ==
    /\ lastOp.n < MaxCacheOps
    /\ LET st == set(cache, k, d, v, now)
       IN  /\ cache' = st.cache
           /\ file' = IF st.saved THEN save_cache(file, st.cache, disk) ELSE file
           /\ storedAt' = IF st.stored THEN [storedAt EXCEPT ![<<k, d>>] = now]
                          ELSE storedAt
           /\ lastOp' = Call("set", k, d, v, None, st.stored)
    /\ UNCHANGED <<now, ticks, runVars>>

\* cache.get(k, d) (lines 52-58)
CacheGet(k, d) ==
    /\ lastOp.n < MaxCacheOps
    /\ lastOp' = Call("get", k, d, None, get(cache, k, d, now), FALSE)
    /\ UNCHANGED <<file, cache, now, ticks, storedAt, runVars>>

CacheTick ==
    /\ ticks < MaxTicks
    /\ ticks' = ticks + 1
    /\ now' = now + TickMs
    /\ UNCHANGED <<file, cache, lastOp, storedAt, runVars>>

\* CryptoCache() (lines 18-19) on any document.
CacheInit ==
    /\ \/ file \in CacheDocs /\ disk = "ok"
       \/ file = AbsentDoc /\ disk \in SaveOutcomes
    /\ cache = _load_cache(file)
    /\ now = T0
    /\ ticks = 0
    /\ lastOp = NoCall
    /\ storedAt = [e \in CacheKeys \X DataTypes |-> LoadedAt(file, e[1], e[2])]
    /\ hasKey = TRUE
    /\ tickersIn = <<>>
    /\ entryPool = {}
    /\ tickers = <<>>
    /\ pc = "cache"
    /\ i = 0
    /\ retry = 0
    /\ quote_data = None
    /\ results = EmptyMap
    /\ failed_tokens = <<>>
    /\ api_calls = 0
    /\ requests = 0
    /\ attempts = 0
    /\ sleeps = <<>>
    /\ pause = 0
    /\ lastFetch = NoFetch

CacheNext ==
    \/ \E k \in CacheKeys, d \in DataTypes, v \in CacheValues : CacheSet(k, d, v)
    \/ \E k \in CacheKeys, d \in DataTypes : CacheGet(k, d)
    \/ CacheTick

CacheSpec == CacheInit /\ [][CacheNext]_vars

\* The quotes are resolved without reading the clock: no Tick.
QuoteNext == Start \/ FetchStep \/ SkipBatch \/ ResolveBatch \/ Finish

QuoteSpec == QuoteInit /\ [][QuoteNext]_vars

(***************************************************************************)
(* The claims.                                                             *)
(***************************************************************************)
Range(seq) == {seq[k] : k \in 1..Len(seq)}

\* C1: when process_all_tickers finishes, every normalized symbol of an
\* attempted batch is in exactly one of results and failed_tokens.  (At
\* "done" every batch of the list has been attempted.)
C1_ExactlyOne ==
    pc = "done" =>
        \A k \in 1..Len(tickers) :
            (tickers[k] \in DOMAIN results) # (tickers[k] \in Range(failed_tokens))

\* C2: a batch whose 3 attempts all returned no usable data has every symbol
\* recorded in failed_tokens and adds nothing to results.
C2_ExhaustedBatchFailed ==
    [][(pc = "check" /\ attempts = MaxAttempts /\ ~Usable(quote_data)) =>
          /\ Range(BatchAt(tickers, i)) \subseteq Range(failed_tokens')
          /\ results' = results]_vars

Count(seq, s) == Cardinality({k \in 1..Len(seq) : seq[k] = s})

\* What the payload holds for a symbol; a payload whose 'data' is no object
\* holds no entry.
EntryOf(qd, s) == IF qd.data = "map" THEN qd.entries[s] ELSE MissingEntry

\* No entry, an empty entry, or a price that is absent or not greater than 0.
NoValidPrice(e) ==
    \/ e.shape \in {"missing", "empty"}
    \/ e.price \in {Missing, Null}
    \/ e.price.t = "num" /\ e.price.n <= 0

\* The price is text (its comparison with 0 raises), or a field the score
\* reads is present and is no number.
ScoreRaises(e) ==
    \/ e.price.t = "str"
    \/ e.percent_change_24h.t \notin {"num", "absent"}
    \/ e.percent_change_7d.t \notin {"num", "absent"}
    \/ e.market_cap.t \notin {"num", "absent"}
    \/ /\ e.market_cap.t = "num" /\ e.market_cap.n > 0
       /\ e.volume_24h.t \notin {"num", "absent"}

\* The step records s as failed, once for each time it occurs in the batch,
\* and leaves its score entry alone.
RecordsFailed(s) ==
    /\ Count(failed_tokens', s) = Count(failed_tokens, s) + Count(BatchAt(tickers, i), s)
    /\ (s \in DOMAIN results') = (s \in DOMAIN results)
    /\ s \in DOMAIN results => results'[s] = results[s]

\* The step gives s a score entry with the price of e and does not record it
\* as failed.
RecordsScore(s, e) ==
    /\ s \in DOMAIN results'
    /\ results'[s].price = e.price.n
    /\ Count(failed_tokens', s) = Count(failed_tokens, s)

\* C3 as stated: after a successful fetch every symbol of the batch is
\* recorded as failed when the payload has no entry, an empty entry or no
\* price greater than 0 for it, and otherwise gets a score entry.
C3_ResolvedByPrice ==
    [][(pc = "check" /\ Usable(quote_data)) =>
          \A s \in Range(BatchAt(tickers, i)) :
              LET e == EntryOf(quote_data, s)
              IN  IF NoValidPrice(e) THEN RecordsFailed(s) ELSE RecordsScore(s, e)]_vars

\* The service's answers in the example of C3: good quotes for BTC and ETH,
\* XYZ omitted, in the response to every batch of the list.
ExamplePayload(batch) ==
    Payload("map", [s \in Symbols |->
        IF s \in Range(batch) \cap {"BTC", "ETH"} THEN GoodEntry ELSE MissingEntry])

ExampleRun ==
    /\ pc = "done"
    /\ tickersIn = <<"btc", "eth", "xyz">>
    /\ cache.shape = "dict"
    /\ \A j \in 0..(Len(tickers) - 1) :
          j % BATCH_SIZE = 0 =>
              LET batch == BatchAt(tickers, j)
              IN  /\ cache_key(batch) \in DOMAIN cache.tab["quotes"].m
                  /\ cache.tab["quotes"].m[cache_key(batch)] = ExamplePayload(batch)

\* C3 as amended: a symbol without a valid price is recorded as failed; so is
\* a symbol whose quote makes the price test or the score computation raise;
\* every other symbol gets a score entry.  In the example run the score mapping has exactly BTC
\* and ETH and the failed symbols are exactly XYZ.
C3_Resolved ==
    /\ [][(pc = "check" /\ Usable(quote_data)) =>
            \A s \in Range(BatchAt(tickers, i)) :
                LET e == EntryOf(quote_data, s)
                IN  IF NoValidPrice(e) \/ ScoreRaises(e)
                    THEN RecordsFailed(s) ELSE RecordsScore(s, e)]_vars
    /\ [](ExampleRun => DOMAIN results = {"BTC", "ETH"} /\ failed_tokens = <<"XYZ">>)

C3_Witness ==
    /\ ExampleRun
    /\ DOMAIN results = {"BTC", "ETH"}
    /\ failed_tokens = <<"XYZ">>

\* C4: get returns a value only if an entry exists for the key under the data
\* type and less than one TTL has passed since that entry was stored.
C4_GetOnlyFresh ==
    (lastOp.op = "get" /\ lastOp.ret # None) =>
        /\ cache.shape = "dict"
        /\ cache.tab[lastOp.data_type].t = "map"
        /\ lastOp.key \in DOMAIN cache.tab[lastOp.data_type].m
        /\ storedAt[<<lastOp.key, lastOp.data_type>>] >= 0 =>
              lastOp.at - storedAt[<<lastOp.key, lastOp.data_type>>] < TTLms

\* C5: on a cache loaded from any document, set(k, t, v) immediately followed
\* by get(k, t) within the TTL returns v.
C5_RoundTrip ==
    (/\ lastOp.op = "get"
     /\ lastOp.prev.op = "set"
     /\ lastOp.prev.key = lastOp.key
     /\ lastOp.prev.data_type = lastOp.data_type
     /\ lastOp.at - lastOp.prev.at < TTLms)
    => lastOp.ret = lastOp.prev.value

\* C6: an attempt made while the cache holds an unexpired payload under the
\* batch's key returns that payload, issues no remote request and is followed
\* by no retry and no backoff sleep.
C6_HitNoRequestNoRetry ==
    [][(/\ pc = "fetch"
        /\ attempts' = attempts + 1
        /\ get(cache, cache_key(BatchAt(tickers, i)), "quotes", now) # None)
       => /\ quote_data' = get(cache, cache_key(BatchAt(tickers, i)), "quotes", now)
          /\ requests' = requests
          /\ retry' = retry
          /\ sleeps' = sleeps]_vars

\* C7: at most 3 calls of the fetcher per batch, none after usable data; the
\* k-th unsuccessful attempt that is followed by another is followed by a
\* sleep of 2^(k-1) seconds, and nothing is slept after the last attempt.
C7_RetryBackoff ==
    /\ attempts <= MaxAttempts
    /\ (pc = "fetch" /\ attempts > 0) => ~Usable(quote_data)
    /\ pc = "fetch" => Len(sleeps) = attempts
    /\ pc \in {"check", "raised_type_error"} => Len(sleeps) = attempts - 1
    /\ \A k \in 1..Len(sleeps) : sleeps[k] = (2 ^ (k - 1)) * 1000
    /\ (pc = "check" /\ attempts = 3 /\ Usable(quote_data)) => sleeps = <<1000, 2000>>

C7_Witness ==
    /\ pc = "check"
    /\ attempts = 3
    /\ lastFetch.src = "remote"
    /\ Usable(quote_data)
    /\ sleeps = <<1000, 2000>>

\* C8: with the credential, process_all_tickers never raises.
C8_NeverRaises == hasKey => pc # "raised_type_error"

\* C9: an attempt that ends in a 429, an application error, a non-200 status
\* or an exception returns None and leaves the cache and its document as they
\* were; once loaded, the cache and the document change only in an attempt
\* answered by a 200 without an application error.
C9_FailureKeepsCache ==
    [][/\ (attempts' = attempts + 1 /\ lastFetch'.resp \in FailureResponses)
            => (quote_data' = None /\ cache' = cache /\ file' = file)
       /\ (pc # "start" /\ (cache' # cache \/ file' # file))
            => (attempts' = attempts + 1 /\ lastFetch'.resp = "ok")]_vars

C9_Witness ==
    /\ lastFetch.src = "remote"
    /\ lastFetch.resp = "apperr"
    /\ quote_data = None
    /\ cache.shape = "dict"
    /\ cache.tab["quotes"].t = "map"
    /\ DOMAIN cache.tab["quotes"].m # {}

\* C10: without the credential the run ends in the error before any work:
\* no request, no cache loaded, no document written, nothing recorded.
C10_NoWorkWithoutCredential ==
    /\ [](~hasKey =>
            /\ pc \in {"start", "raised_credential"}
            /\ cache = NotLoaded
            /\ requests = 0
            /\ api_calls = 0
            /\ results = EmptyMap
            /\ failed_tokens = <<>>)
    /\ [][~hasKey => file' = file]_vars

C10_Witness ==
    /\ ~hasKey
    /\ pc = "raised_credential"
    /\ tickersIn # <<>>
    /\ file # AbsentDoc

\* The sequences that hold the elements of seq in any order.
Perms(seq) ==
    LET n == Len(seq)
        shuffles == {f \in [1..n -> 1..n] : \A a, b \in 1..n : a # b => f[a] # f[b]}
    IN  {[k \in 1..n |-> seq[f[k]]] : f \in shuffles}

\* C11: every ordering of the symbols of a batch has the same cache key, and
\* it is the key under which the fetcher read and wrote for the batch.
C11_KeyOrderIndependent ==
    pc \in {"fetch", "check"} =>
        \A p \in Perms(BatchAt(tickers, i)) :
            /\ cache_key(p) = cache_key(BatchAt(tickers, i))
            /\ attempts > 0 => lastFetch.key = cache_key(p)

C11_Witness ==
    /\ tickers = <<"ETH", "BTC">>
    /\ pc = "check"
    /\ lastFetch.src = "cache"
    /\ lastFetch.key = "BTC,ETH"
    /\ "BTC,ETH" \in DOMAIN cache.tab["quotes"].m

\* C20: an attempt that follows, in the same batch and so within the TTL, a
\* successful remote response for the batch's key issues no remote request.
C20_OneRemoteSuccessPerKey ==
    [][(/\ pc = "fetch"
        /\ attempts > 0
        /\ attempts' = attempts + 1
        /\ lastFetch.src = "remote"
        /\ lastFetch.resp = "ok"
        /\ lastFetch.key = cache_key(BatchAt(tickers, i)))
       => requests' = requests]_vars

Abs(n) == IF n < 0 THEN -n ELSE n

RECURSIVE Gcd(_, _)
Gcd(a, b) == IF b = 0 THEN a ELSE Gcd(b, a % b)

\* The fraction in lowest terms.
Reduced(fr) ==
    LET g == Gcd(Abs(fr.num), Abs(fr.den))
    IN  [num |-> fr.num \div g, den |-> fr.den \div g]

\* A field of the quote, 0 when the quote does not have it.
FieldOr0(v) == IF v.t = "num" THEN v.n ELSE 0

\* 0.5 * pc24 + 0.3 * pc7 + 0.2 * volume_ratio as a fraction, where
\* volume_ratio is volume / cap * 100 if cap > 0 and 0 otherwise.
ClaimedScore(e) ==
    LET pc24 == FieldOr0(e.percent_change_24h)
        pc7 == FieldOr0(e.percent_change_7d)
        vol == FieldOr0(e.volume_24h)
        cap == FieldOr0(e.market_cap)
    IN  IF cap > 0
        THEN [num |-> 5 * pc24 * cap + 3 * pc7 * cap + 2 * (vol * 100),
              den |-> 10 * cap]
        ELSE [num |-> 5 * pc24 + 3 * pc7, den |-> 10]

\* C12: a symbol whose quote has a valid price and fields that are numbers
\* or absent gets the score 0.5*pc24 + 0.3*pc7 + 0.2*volume_ratio; with a
\* zero or absent market cap it still gets a score, with volume term 0.
C12_ScoreFormula ==
    [][(pc = "check" /\ Usable(quote_data)) =>
          \A s \in Range(BatchAt(tickers, i)) :
              LET e == EntryOf(quote_data, s)
              IN  (~NoValidPrice(e) /\ ~ScoreRaises(e)) =>
                      /\ s \in DOMAIN results'
                      /\ results'[s].score.den # 0
                      /\ Reduced(results'[s].score) = Reduced(ClaimedScore(e))
                      /\ FieldOr0(e.market_cap) = 0 =>
                            Reduced(results'[s].score) =
                                Reduced([num |-> 5 * FieldOr0(e.percent_change_24h)
                                                 + 3 * FieldOr0(e.percent_change_7d),
                                         den |-> 10])]_vars

C12_Witness ==
    /\ pc = "done"
    /\ tickers = <<"BTC", "ETH", "XYZ">>
    /\ DOMAIN results = {"BTC", "ETH", "XYZ"}
    /\ results["BTC"] = [score |-> [num |-> 850000000, den |-> 100000000], price |-> 100]
    /\ results["ETH"] = [score |-> [num |-> -14, den |-> 10], price |-> 200]
    /\ results["XYZ"] = [score |-> [num |-> 65, den |-> 10], price |-> 100]

\* C13: the first attempt of every batch but the first is preceded by the
\* 100 ms pause, whether the batch before it succeeded or was given up.
C13_PauseAfterEachBatch ==
    (pc = "fetch" /\ i > 0 /\ attempts = 0) => pause = BatchPauseMs

\* C14: a batch given up after its 3 attempts is followed by the next batch
\* of the list, if there is one; batches are taken in the order of the list,
\* none is passed over without an attempt, and the run ends only after the
\* last batch.
C14_ExhaustedBatchContinues ==
    /\ [][(pc = "check" /\ attempts = MaxAttempts /\ ~Usable(quote_data)) =>
            /\ i' = i + BATCH_SIZE
            /\ pc' = IF i + BATCH_SIZE < Len(tickers) THEN "fetch" ELSE "finish"]_vars
    /\ [][i' # i => (i' = i + BATCH_SIZE /\ pc = "check" /\ attempts >= 1)]_vars
    /\ [](pc = "done" => i >= Len(tickers))

C14_Witness ==
    /\ pc = "done"
    /\ tickers = <<"BTC", "ETH", "XYZ">>
    /\ api_calls = MaxAttempts + 1
    /\ requests = MaxAttempts + 1
    /\ DOMAIN results = {"XYZ"}
    /\ failed_tokens = <<>>

\* A symbol as supplied and the symbol in upper case.
UpperCased == {<<"btc", "BTC">>, <<"eth", "ETH">>, <<"xyz", "XYZ">>}

\* C15: the list is the input in upper case; every batch starts at a
\* multiple of BATCH_SIZE, is non-empty, holds the next symbols of the list in
\* order, has BATCH_SIZE symbols unless it is the last, and the next batch
\* starts where it ends.
C15_Batching ==
    /\ [](pc \notin {"start", "raised_credential"} =>
            /\ Len(tickers) = Len(tickersIn)
            /\ \A k \in 1..Len(tickers) : <<tickersIn[k], tickers[k]>> \in UpperCased)
    /\ [](pc \in {"fetch", "check"} =>
            LET batch == BatchAt(tickers, i)
            IN  /\ i % BATCH_SIZE = 0
                /\ i < Len(tickers)
                /\ Len(batch) >= 1
                /\ Len(batch) <= BATCH_SIZE
                /\ Len(batch) < BATCH_SIZE => i + Len(batch) = Len(tickers)
                /\ \A k \in 1..Len(batch) : batch[k] = tickers[i + k])
    /\ [][i' # i => (i' = i + BATCH_SIZE /\ i' >= i + Len(BatchAt(tickers, i)))]_vars
    /\ [](pc = "finish" => i >= Len(tickers))

C15_Witness ==
    /\ pc = "fetch"
    /\ attempts = 0
    /\ tickersIn = <<"xyz", "eth", "btc">>
    /\ i = BATCH_SIZE
    /\ BatchAt(tickers, 0) = <<"XYZ", "ETH">>
    /\ BatchAt(tickers, i) = <<"BTC">>

\* Extracting or scoring the entry raises: the price passes or breaks the
\* price test and a field is of a type the arithmetic does not take.
Raises(e) == e.shape = "list" /\ ~NoValidPrice(e) /\ ScoreRaises(e)

\* C16: when a symbol of a successfully fetched batch raises, that symbol is
\* recorded as failed, every other symbol of the batch gets the outcome its
\* own entry calls for, and the run goes on.
C16_ExceptionIsolated ==
    [][(/\ pc = "check"
        /\ Usable(quote_data)
        /\ quote_data.data = "map"
        /\ \E t \in Range(BatchAt(tickers, i)) : Raises(EntryOf(quote_data, t)))
       => /\ pc' \in {"fetch", "finish"}
          /\ \A s \in Range(BatchAt(tickers, i)) :
                LET e == EntryOf(quote_data, s)
                IN  CASE Raises(e) -> RecordsFailed(s)
                      [] NoValidPrice(e) -> RecordsFailed(s)
                      [] OTHER -> /\ RecordsScore(s, e)
                                  /\ Reduced(results'[s].score) = Reduced(ClaimedScore(e))]_vars

C16_Witness ==
    /\ pc = "done"
    /\ tickers = <<"ETH", "BTC">>
    /\ quote_data.data = "map"
    /\ quote_data.entries["ETH"] = NullChangeEntry
    /\ quote_data.entries["BTC"] = GoodEntry
    /\ failed_tokens = <<"ETH">>
    /\ DOMAIN results = {"BTC"}

\* The batches of the list: ceil(len(tickers) / BATCH_SIZE).
Batches == (Len(tickers) + BATCH_SIZE - 1) \div BATCH_SIZE

\* C17: api_calls goes up by one in every attempt, whatever its outcome, and
\* in no other step; it is never below the number of remote requests, and
\* when the run ends it lies between the number of batches and 3 times it.
C17_CallCounter ==
    /\ [][/\ attempts' = attempts + 1 => api_calls' = api_calls + 1
          /\ api_calls' # api_calls =>
                (api_calls' = api_calls + 1 /\ attempts' = attempts + 1)]_vars
    /\ [](requests <= api_calls)
    /\ [](pc = "done" =>
            (Batches <= api_calls /\ api_calls <= MaxAttempts * Batches))

C17_Witness ==
    /\ pc = "done"
    /\ Len(tickers) = 3
    /\ api_calls = 6
    /\ requests = 2

\* C18: an attempt answered with a 429 sleeps the 10 s cool-down inside the
\* call and returns None, so a request that follows a 429 comes at least
\* 10 s after it; the attempt is one of the 3 of its batch: after a 429 on
\* the third attempt the batch is given up.
C18_RateLimitCooldown ==
    /\ [][(attempts' = attempts + 1 /\ lastFetch'.resp = "429") =>
            /\ lastFetch'.slept = RateLimitCooldown * 1000
            /\ quote_data' = None
            /\ attempts' <= MaxAttempts
            /\ pc' = IF attempts' = MaxAttempts THEN "check" ELSE "fetch"]_vars
    /\ [][(requests' = requests + 1 /\ lastFetch.resp = "429") =>
            lastFetch.slept >= RateLimitCooldown * 1000]_vars
    /\ [][(pc = "check" /\ attempts = MaxAttempts /\ lastFetch.resp = "429") =>
            attempts' = 0]_vars

C18_Witness ==
    /\ pc = "check"
    /\ attempts = MaxAttempts
    /\ requests = MaxAttempts
    /\ lastFetch.resp = "429"
    /\ lastFetch.slept = 10000
    /\ sleeps = <<1000, 2000>>

\* The last call of the fetcher stored its response and set ran to its end:
\* the cache holds the timestamp of line 67 for the key.
SetCompleted ==
    /\ lastFetch.src = "remote"
    /\ lastFetch.resp = "ok"
    /\ cache.shape = "dict"
    /\ cache.tab["timestamp"].t = "map"
    /\ lastFetch.key \in DOMAIN cache.tab["timestamp"].m
    /\ cache.tab["timestamp"].m[lastFetch.key].t = "iso"

\* C19: once a set has completed, the document on disk is, at every point
\* between two steps of the run, a complete document equal to the cache in
\* memory, never a missing, truncated or partially written one.
C19_PersistedCacheComplete ==
    SetCompleted =>
        /\ file.shape = "dict"
        /\ file = cache

====
